---- MODULE Spec2Model ----
(***************************************************************************)
(* Reconciliation core of kamaji: the datastore Setup resource             *)
(* (internal/resources/datastore/datastore_setup.go) and the kubeadm       *)
(* add-on resource (KubeadmAddonResource), driven by the generic           *)
(* reconciliation cycle Define -> CreateOrUpdate ->                        *)
(* UpdateTenantControlPlaneStatus.                                         *)
(***************************************************************************)
EXTENDS Integers, Sequences, FiniteSets, TLC

VARIABLES
    dbs,        \* schemas present in the datastore (Connection.DBExists)
    users,      \* user -> password, "" when the user is absent
    grants,     \* <<user, schema>> pairs with a privilege grant
    secret,     \* data of the credentials secret named by Config.SecretName
    storage,    \* tenantControlPlane.Status.Storage
    driver,     \* r.DataStore.Spec.Driver
    resource,   \* r.resource, filled by Define
    pc,         \* position of the reconciliation cycle
    last,       \* observation of the latest CreateOrUpdate / Delete call
    prev,       \* observation of the call before it, without what it found
    changes,    \* configuration changes made so far
    failures,   \* external failures injected so far
    addonSpec,  \* add-on -> whether Spec.Addons.<add-on> is non-nil
    addonStatus,\* add-on -> Status.Addons.<add-on>.Checksum
    addonRes,   \* KubeadmAddon -> kubeadmConfigChecksum of that resource
    installed,  \* add-on -> whether it is installed in the tenant cluster
    addonLast   \* observation of the latest add-on call

dsvars == <<dbs, users, grants, secret, storage, driver, resource, pc,
            last, prev, changes, failures>>
addonvars == <<addonSpec, addonStatus, addonRes, installed, addonLast>>
vars == <<dbs, users, grants, secret, storage, driver, resource, pc,
          last, prev, changes, failures,
          addonSpec, addonStatus, addonRes, installed, addonLast>>

----------------------------------------------------------------------------
(* Bounds *)

\* configuration changes the environment makes in one behaviour
MaxChanges == 2
\* external failures (datastore or API server) in one behaviour
MaxFailures == 1

----------------------------------------------------------------------------
(* Inputs *)

Users   == {"u1"}
Drivers == {"MySQL", "PostgreSQL"}

\* The storage configurations the tenant can be given: the content of the
\* credentials secret. The second keeps schema and user and changes the
\* password, the third names another schema for the same user.
Configs ==
    << [schema |-> "tenantA", user |-> "u1", password |-> "pw1"],
       [schema |-> "tenantA", user |-> "u1", password |-> "pw2"],
       [schema |-> "tenantB", user |-> "u1", password |-> "pw1"] >>

\* The fingerprint of a configuration: a deterministic digest, distinct for
\* distinct content and never empty.
Checksum(cfg) ==
    CASE cfg = Configs[1] -> "cfgHash1"
      [] cfg = Configs[2] -> "cfgHash2"
      [] cfg = Configs[3] -> "cfgHash3"

ConfigSet == {Configs[i] : i \in 1..Len(Configs)}

\* The Connection operation that fails in a call, "none" for no failure.
ConnectionOps == {"DBExists", "CreateDB", "DeleteDB",
                  "UserExists", "CreateUser", "DeleteUser",
                  "GrantPrivilegesExists", "GrantPrivileges", "RevokePrivileges"}
Failure == ConnectionOps \cup {"none"}

----------------------------------------------------------------------------
(* controllerutil.OperationResult and utils.UpdateOperationResult *)

OperationResultNone    == "unchanged"
OperationResultCreated == "created"
OperationResultUpdated == "updated"

\* Created > Updated > None
UpdateOperationResult(current, op) ==
    IF current = OperationResultCreated \/ op = OperationResultCreated
    THEN OperationResultCreated
    ELSE IF current = OperationResultUpdated \/ op = OperationResultUpdated
         THEN OperationResultUpdated
         ELSE OperationResultNone

----------------------------------------------------------------------------
(* datastore.Connection: c = [dbs, users, grants, ops]; ops is the log of   *)
(* the mutating operations invoked, in order.                               *)

Conn(d, u, g) == [dbs |-> d, users |-> u, grants |-> g, ops |-> <<>>]

Invoked(c, op, user, schema, ok) ==
    Append(c.ops, [op |-> op, user |-> user, schema |-> schema, ok |-> ok])

DBExists(c, schema) == schema \in c.dbs
UserExists(c, user) == c.users[user] # ""
GrantPrivilegesExists(c, user, schema) == <<user, schema>> \in c.grants

CreateDB(c, schema) ==
    [c EXCEPT !.dbs = @ \cup {schema},
              !.ops = Invoked(c, "CreateDB", "", schema, TRUE)]
DeleteDB(c, schema) ==
    [c EXCEPT !.dbs = @ \ {schema},
              !.ops = Invoked(c, "DeleteDB", "", schema, TRUE)]
CreateUser(c, user, password) ==
    [c EXCEPT !.users[user] = password,
              !.ops = Invoked(c, "CreateUser", user, "", TRUE)]
DeleteUser(c, user) ==
    [c EXCEPT !.users[user] = "",
              !.ops = Invoked(c, "DeleteUser", user, "", TRUE)]
GrantPrivileges(c, user, schema) ==
    [c EXCEPT !.grants = @ \cup {<<user, schema>>},
              !.ops = Invoked(c, "GrantPrivileges", user, schema, TRUE)]
RevokePrivileges(c, user, schema) ==
    [c EXCEPT !.grants = @ \ {<<user, schema>>},
              !.ops = Invoked(c, "RevokePrivileges", user, schema, TRUE)]

\* A mutating operation that returns an error: invoked, without effect.
Failed(c, op, user, schema) ==
    [c EXCEPT !.ops = Invoked(c, op, user, schema, FALSE)]

----------------------------------------------------------------------------
(* Setup: the private steps. Each returns [c, result, err]; err = "" is nil *)

Ret(c, result, err) == [c |-> c, result |-> result, err |-> err]

\* createDB without its existence check.
createDBUnchecked(c, res, f) ==
    IF f = "CreateDB"
    THEN Ret(Failed(c, "CreateDB", "", res.schema), OperationResultNone,
             "unable to create the datastore")
    ELSE Ret(CreateDB(c, res.schema), OperationResultCreated, "")

createDB(c, res, f) ==
    IF f = "DBExists"
    THEN Ret(c, OperationResultNone, "unable to check if datastore exists")
    ELSE IF DBExists(c, res.schema)
    THEN Ret(c, OperationResultNone, "")
    ELSE IF f = "CreateDB"
    THEN Ret(Failed(c, "CreateDB", "", res.schema), OperationResultNone,
             "unable to create the datastore")
    ELSE Ret(CreateDB(c, res.schema), OperationResultCreated, "")

deleteDB(c, res, f) ==
    IF f = "DBExists"
    THEN Ret(c, OperationResultNone, "unable to check if datastore exists")
    ELSE IF ~DBExists(c, res.schema)
    THEN Ret(c, OperationResultNone, "")
    ELSE IF f = "DeleteDB"
    THEN Ret(Failed(c, "DeleteDB", "", res.schema), OperationResultNone,
             "unable to delete the datastore")
    ELSE Ret(DeleteDB(c, res.schema), OperationResultNone, "")

\* createUser giving an existing user the password read by Define.
createUserResetting(c, res, f) ==
    IF f = "UserExists"
    THEN Ret(c, OperationResultNone, "unable to check if user exists")
    ELSE IF UserExists(c, res.user) /\ c.users[res.user] = res.password
    THEN Ret(c, OperationResultNone, "")
    ELSE IF f = "CreateUser"
    THEN Ret(Failed(c, "CreateUser", res.user, ""), OperationResultNone,
             "unable to create the user")
    ELSE Ret(CreateUser(c, res.user, res.password),
             IF UserExists(c, res.user) THEN OperationResultUpdated
             ELSE OperationResultCreated, "")

createUser(c, res, f) ==
    IF f = "UserExists"
    THEN Ret(c, OperationResultNone, "unable to check if user exists")
    ELSE IF UserExists(c, res.user)
    THEN Ret(c, OperationResultNone, "")
    ELSE IF f = "CreateUser"
    THEN Ret(Failed(c, "CreateUser", res.user, ""), OperationResultNone,
             "unable to create the user")
    ELSE Ret(CreateUser(c, res.user, res.password), OperationResultCreated, "")

\* deleteUser without its existence check.
deleteUserUnchecked(c, res, f) ==
    IF f = "DeleteUser"
    THEN Ret(Failed(c, "DeleteUser", res.user, ""), OperationResultNone,
             "unable to remove the user")
    ELSE Ret(DeleteUser(c, res.user), OperationResultNone, "")

deleteUser(c, res, f) ==
    IF f = "UserExists"
    THEN Ret(c, OperationResultNone, "unable to check if user exists")
    ELSE IF ~UserExists(c, res.user)
    THEN Ret(c, OperationResultNone, "")
    ELSE IF f = "DeleteUser"
    THEN Ret(Failed(c, "DeleteUser", res.user, ""), OperationResultNone,
             "unable to remove the user")
    ELSE Ret(DeleteUser(c, res.user), OperationResultNone, "")

\* createGrantPrivileges asking whether the user exists, as createUser does,
\* where it has to ask whether the grant exists.
createGrantPrivilegesByUser(c, res, f) ==
    IF f = "GrantPrivilegesExists"
    THEN Ret(c, OperationResultNone, "unable to check if privileges exist")
    ELSE IF UserExists(c, res.user)
    THEN Ret(c, OperationResultNone, "")
    ELSE IF f = "GrantPrivileges"
    THEN Ret(Failed(c, "GrantPrivileges", res.user, res.schema),
             OperationResultNone, "unable to grant privileges")
    ELSE Ret(GrantPrivileges(c, res.user, res.schema), OperationResultCreated, "")

createGrantPrivileges(c, res, f) ==
    IF f = "GrantPrivilegesExists"
    THEN Ret(c, OperationResultNone, "unable to check if privileges exist")
    ELSE IF GrantPrivilegesExists(c, res.user, res.schema)
    THEN Ret(c, OperationResultNone, "")
    ELSE IF f = "GrantPrivileges"
    THEN Ret(Failed(c, "GrantPrivileges", res.user, res.schema),
             OperationResultNone, "unable to grant privileges")
    ELSE Ret(GrantPrivileges(c, res.user, res.schema), OperationResultCreated, "")

revokeGrantPrivileges(c, res, f) ==
    IF f = "GrantPrivilegesExists"
    THEN Ret(c, OperationResultNone, "unable to check if privileges exist")
    ELSE IF ~GrantPrivilegesExists(c, res.user, res.schema)
    THEN Ret(c, OperationResultNone, "")
    ELSE IF f = "RevokePrivileges"
    THEN Ret(Failed(c, "RevokePrivileges", res.user, res.schema),
             OperationResultNone, "unable to revoke privileges")
    ELSE Ret(RevokePrivileges(c, res.user, res.schema), OperationResultNone, "")

----------------------------------------------------------------------------
(* Setup: the exported operations *)

\* Delete going on to the schema and the user after a failed revoke step.
DeleteRegardless(c, res, f) ==
    LET r1 == revokeGrantPrivileges(c, res, f)
        r2 == deleteDB(r1.c, res, IF r1.err # "" THEN "none" ELSE f) IN
    IF r2.err # "" THEN r2
    ELSE LET r3 == deleteUser(r2.c, res, IF r1.err # "" THEN "none" ELSE f) IN
         IF r3.err # "" THEN r3 ELSE Ret(r3.c, r3.result, r1.err)

\* Setup.Delete: revoke, then delete the schema, then delete the user; the
\* first error ends the call.
Delete(c, res, f) ==
    LET r1 == revokeGrantPrivileges(c, res, f) IN
    IF r1.err # "" THEN r1
    ELSE LET r2 == deleteDB(r1.c, res, f) IN
         IF r2.err # "" THEN r2
         ELSE deleteUser(r2.c, res, f)

\* The teardown condition without the test for a never-provisioned tenant.
DriftedFromAny(st) ==
    st.Setup.Checksum # st.Config.Checksum

\* The condition of the teardown branch of Setup.CreateOrUpdate.
Drifted(st) ==
    /\ st.Setup.Checksum # ""
    /\ st.Setup.Checksum # st.Config.Checksum

\* Provisioning with the user handled before the schema.
ProvisionUserFirst(c, res, f) ==
    LET r1 == createUser(c, res, f) IN
    IF r1.err # "" THEN Ret(r1.c, OperationResultNone, r1.err)
    ELSE
    LET rr1 == UpdateOperationResult(OperationResultNone, r1.result)
        r2  == createDB(r1.c, res, f) IN
    IF r2.err # "" THEN Ret(r2.c, rr1, r2.err)
    ELSE
    LET rr2 == UpdateOperationResult(rr1, r2.result)
        r3  == createGrantPrivileges(r2.c, res, f) IN
    IF r3.err # "" THEN Ret(r3.c, rr2, r3.err)
    ELSE Ret(r3.c, UpdateOperationResult(rr2, r3.result), "")

\* Provisioning that returns the outcome of its last step alone.
ProvisionLastResult(c, res, f) ==
    LET r1 == createDB(c, res, f) IN
    IF r1.err # "" THEN Ret(r1.c, OperationResultNone, r1.err)
    ELSE
    LET r2 == createUser(r1.c, res, f) IN
    IF r2.err # "" THEN Ret(r2.c, r1.result, r2.err)
    ELSE
    LET r3 == createGrantPrivileges(r2.c, res, f) IN
    IF r3.err # "" THEN Ret(r3.c, r2.result, r3.err)
    ELSE Ret(r3.c, r3.result, "")

\* The provisioning branch of Setup.CreateOrUpdate.
Provision(c, res, f) ==
    LET r1 == createDB(c, res, f) IN
    IF r1.err # "" THEN Ret(r1.c, OperationResultNone, r1.err)
    ELSE
    LET rr1 == UpdateOperationResult(OperationResultNone, r1.result)
        r2  == createUser(r1.c, res, f) IN
    IF r2.err # "" THEN Ret(r2.c, rr1, r2.err)
    ELSE
    LET rr2 == UpdateOperationResult(rr1, r2.result)
        r3  == createGrantPrivileges(r2.c, res, f) IN
    IF r3.err # "" THEN Ret(r3.c, rr2, r3.err)
    ELSE Ret(r3.c, UpdateOperationResult(rr2, r3.result), "")

\* CreateOrUpdate recording the fingerprint itself once the teardown is done.
CreateOrUpdateRecording(st, c, res, f) ==
    IF Drifted(st)
    THEN LET d == Delete(c, res, f) IN
         IF d.err # ""
         THEN [c |-> d.c, result |-> OperationResultNone, err |-> d.err, st |-> st]
         ELSE [c |-> d.c, result |-> OperationResultUpdated, err |-> "",
               st |-> [st EXCEPT !.Setup.Checksum = st.Config.Checksum]]
    ELSE LET p == Provision(c, res, f) IN
         [c |-> p.c, result |-> p.result, err |-> p.err, st |-> st]

\* Returns [c, result, err, st]: st is the status of the tenant the call was
\* handed by pointer, as the call leaves it.
CreateOrUpdate(st, c, res, f) ==
    IF Drifted(st)
    THEN LET d == Delete(c, res, f) IN
         IF d.err # ""
         THEN [c |-> d.c, result |-> OperationResultNone, err |-> d.err, st |-> st]
         ELSE [c |-> d.c, result |-> OperationResultUpdated, err |-> "", st |-> st]
    ELSE LET p == Provision(c, res, f) IN
         [c |-> p.c, result |-> p.result, err |-> p.err, st |-> st]

\* ShouldStatusBeUpdated with either difference being enough.
SetupShouldStatusBeUpdatedEither(st, drv) ==
    \/ st.Driver # drv
    \/ st.Setup.Checksum # st.Config.Checksum

SetupShouldStatusBeUpdated(st, drv) ==
    /\ st.Driver # drv
    /\ st.Setup.Checksum # st.Config.Checksum

SetupShouldCleanup == FALSE

\* Setup.CleanUp: (false, nil).
SetupCleanUp == [done |-> FALSE, err |-> ""]

\* metav1.Now() is kept as the mark "now".
UpdateTenantControlPlaneStatus(st, res) ==
    [st EXCEPT !.Setup = [Schema     |-> res.schema,
                          User       |-> res.user,
                          LastUpdate |-> "now",
                          Checksum   |-> st.Config.Checksum]]

----------------------------------------------------------------------------
(* KubeadmAddonResource *)

AddonCoreDNS   == 0
AddonKubeProxy == 1

\* The values a KubeadmAddon is given: the two add-ons and one with no case.
KubeadmAddons == {AddonCoreDNS, AddonKubeProxy, AddonKubeProxy + 1}
KnownAddons   == {AddonCoreDNS, AddonKubeProxy}

Addons == {"CoreDNS", "KubeProxy"}
AddonChecksums == {"kubeadmHash1", "kubeadmHash2"}

\* The field of Spec.Addons and of Status.Addons a known add-on has.
AddonField(d) == IF d = AddonCoreDNS THEN "CoreDNS" ELSE "KubeProxy"

\* KubeadmAddon.String indexes an array of two names.
StringPanics(d) == d \notin {0, 1}

\* getSpec with the comparison to nil inverted.
getSpecDeclared(spec, d) ==
    CASE d = AddonCoreDNS   -> [ok |-> spec["CoreDNS"], err |-> ""]
      [] d = AddonKubeProxy -> [ok |-> spec["KubeProxy"], err |-> ""]
      [] OTHER              -> [ok |-> FALSE, err |-> "has no spec"]

\* spec[a] is TRUE when Spec.Addons.<a> is not nil.
getSpec(spec, d) ==
    CASE d = AddonCoreDNS   -> [ok |-> ~spec["CoreDNS"], err |-> ""]
      [] d = AddonKubeProxy -> [ok |-> ~spec["KubeProxy"], err |-> ""]
      [] OTHER              -> [ok |-> FALSE, err |-> "has no spec"]

AddonShouldCleanup(spec, d) ==
    LET g == getSpec(spec, d) IN
    IF g.err # "" THEN FALSE ELSE g.ok

\* GetStatus with the two cases handing out each other's status.
GetStatusCrossed(d) ==
    CASE d = AddonCoreDNS   -> [field |-> "KubeProxy", err |-> ""]
      [] d = AddonKubeProxy -> [field |-> "CoreDNS", err |-> ""]
      [] OTHER              -> [field |-> "", err |-> "has no addon status"]

GetStatus(d) ==
    CASE d = AddonCoreDNS   -> [field |-> "CoreDNS", err |-> ""]
      [] d = AddonKubeProxy -> [field |-> "KubeProxy", err |-> ""]
      [] OTHER              -> [field |-> "", err |-> "has no addon status"]

isStatusEqual(status, checksum, d) ==
    LET i == GetStatus(d) IN
    IF i.err # "" THEN FALSE ELSE status[i.field] = checksum

AddonShouldStatusBeUpdated(status, checksum, d) ==
    ~isStatusEqual(status, checksum, d)

getRemoveAddonFunction(d) ==
    CASE d = AddonCoreDNS   -> [fun |-> "RemoveCoreDNSAddon", err |-> ""]
      [] d = AddonKubeProxy -> [fun |-> "RemoveKubeProxy", err |-> ""]
      [] OTHER -> [fun |-> "", err |-> "no available functionality for removing addon"]

GetKubeadmFunction(d) ==
    CASE d = AddonCoreDNS   -> [fun |-> "AddCoreDNS", err |-> ""]
      [] d = AddonKubeProxy -> [fun |-> "AddKubeProxy", err |-> ""]
      [] OTHER -> [fun |-> "", err |-> "no available functionality for phase"]

\* The remover: removes an installed add-on, reports NotFound for one that
\* is not installed, or fails otherwise (fails = TRUE).
Remove(inst, a, fails) ==
    IF fails THEN [inst |-> inst, err |-> "remover failed"]
    ELSE IF ~inst[a] THEN [inst |-> inst, err |-> "NotFound"]
    ELSE [inst |-> [inst EXCEPT ![a] = FALSE], err |-> ""]

\* CleanUp without the IsNotFound branch: every error of the remover is
\* returned.
CleanUpStrict(status, inst, d, clientOk, fails) ==
    IF StringPanics(d)
    THEN [done |-> FALSE, err |-> "panic", inst |-> inst, status |-> status]
    ELSE IF ~clientOk
    THEN [done |-> FALSE, err |-> "cannot generate Tenant client",
          inst |-> inst, status |-> status]
    ELSE LET fun == getRemoveAddonFunction(d) IN
    IF fun.err # ""
    THEN [done |-> FALSE, err |-> fun.err, inst |-> inst, status |-> status]
    ELSE LET r == Remove(inst, AddonField(d), fails) IN
    IF r.err # ""
    THEN [done |-> FALSE, err |-> r.err, inst |-> r.inst, status |-> status]
    ELSE [done |-> TRUE, err |-> "", inst |-> r.inst, status |-> status]

\* KubeadmAddonResource.CleanUp: [done, err, inst, status]. clientOk tells
\* whether the tenant client can be built; status is Status.Addons of the
\* tenant the call is handed by pointer, as the call leaves it.
CleanUp(status, inst, d, clientOk, fails) ==
    IF StringPanics(d)
    THEN [done |-> FALSE, err |-> "panic", inst |-> inst, status |-> status]
    ELSE IF ~clientOk
    THEN [done |-> FALSE, err |-> "cannot generate Tenant client",
          inst |-> inst, status |-> status]
    ELSE LET fun == getRemoveAddonFunction(d) IN
    IF fun.err # ""
    THEN [done |-> FALSE, err |-> fun.err, inst |-> inst, status |-> status]
    ELSE LET r == Remove(inst, AddonField(d), fails) IN
    IF r.err # ""
    THEN IF r.err # "NotFound"
         THEN [done |-> FALSE, err |-> r.err, inst |-> r.inst, status |-> status]
         ELSE [done |-> FALSE, err |-> "", inst |-> r.inst, status |-> status]
    ELSE [done |-> TRUE, err |-> "", inst |-> r.inst, status |-> status]

\* KubeadmAddonResource.UpdateTenantControlPlaneStatus: [status, err].
AddonUpdateTenantControlPlaneStatus(status, checksum, d) ==
    IF StringPanics(d)
    THEN [status |-> status, err |-> "panic"]
    ELSE LET i == GetStatus(d) IN
    IF i.err # ""
    THEN [status |-> status, err |-> i.err]
    ELSE [status |-> [status EXCEPT ![i.field] = checksum], err |-> ""]

\* KubeadmAddonResource.CreateOrUpdate: the installer of the add-on is run
\* (ok tells whether it succeeds): [inst, err].
AddonCreateOrUpdate(inst, d, ok) ==
    IF StringPanics(d)
    THEN [inst |-> inst, err |-> "panic"]
    ELSE LET fun == GetKubeadmFunction(d) IN
    IF fun.err # "" THEN [inst |-> inst, err |-> fun.err]
    ELSE IF ~ok THEN [inst |-> inst, err |-> "installer failed"]
    ELSE [inst |-> [inst EXCEPT ![AddonField(d)] = TRUE], err |-> ""]

\* Status.Addons.<add-on>.Checksum of resource d, "" when it has none.
Recorded(status, d) ==
    IF d \in KnownAddons THEN status[AddonField(d)] ELSE ""

\* What call op of resource d returned (done, err), with what it was given:
\* the status and the installed add-ons it found, whether the tenant client
\* could be built, whether the remover failed, the checksum it applied.
AddonObserved(op, d, done, err, status, inst, clientOk, fails, applied) ==
    [op |-> op, addon |-> d, done |-> done, err |-> err,
     recorded |-> Recorded(status, d), status |-> status, inst |-> inst,
     clientOk |-> clientOk, fails |-> fails, applied |-> applied]

NoAddonCall ==
    AddonObserved("none", AddonCoreDNS, FALSE, "", [a \in Addons |-> ""],
                  [a \in Addons |-> FALSE], TRUE, FALSE, "")

----------------------------------------------------------------------------
(* State *)

NoUsers == [u \in Users |-> ""]

NoCall ==
    [kind |-> "none", branch |-> "", fail |-> "none",
     result |-> "", err |-> "", ops |-> <<>>,
     pre  |-> [dbs |-> {}, users |-> NoUsers, grants |-> {}],
     st   |-> [recorded |-> "", desired |-> ""],
     res  |-> [schema |-> "", user |-> "", password |-> ""]]

\* What a call of kind k made of connection c, status st and credentials res
\* when operation f failed: r is what it returned.
Observed(k, st, c, res, f, r) ==
    [kind   |-> k,
     fail   |-> f,
     branch |-> IF k = "CreateOrUpdate" /\ ~Drifted(st) THEN "provision" ELSE "teardown",
     result |-> r.result, err |-> r.err, ops |-> r.c.ops,
     pre    |-> [dbs |-> c.dbs, users |-> c.users, grants |-> c.grants],
     st     |-> [recorded |-> st.Setup.Checksum, desired |-> st.Config.Checksum],
     res    |-> res]

\* What is kept of a call once another one has followed it.
Earlier(o) == [o EXCEPT !.pre = NoCall.pre]

Init ==
    /\ dbs = {}
    /\ users = NoUsers
    /\ grants = {}
    /\ secret = Configs[1]
    /\ storage = [Driver |-> "",
                  Config |-> [Checksum |-> Checksum(Configs[1])],
                  Setup  |-> [Schema |-> "", User |-> "", LastUpdate |-> "",
                              Checksum |-> ""]]
    /\ driver = "MySQL"
    /\ resource = [schema |-> "", user |-> "", password |-> ""]
    /\ pc = "idle"
    /\ last = NoCall
    /\ prev = NoCall
    /\ changes = 0
    /\ failures = 0
    /\ addonSpec = [a \in Addons |-> FALSE]
    /\ addonStatus = [a \in Addons |-> ""]
    /\ addonRes = [d \in KubeadmAddons |-> ""]
    /\ installed = [a \in Addons |-> FALSE]
    /\ addonLast = NoAddonCall

----------------------------------------------------------------------------
(* The environment *)

\* The storage configuration of the tenant changes: the credentials secret
\* and its fingerprint Status.Storage.Config.Checksum are rewritten together,
\* between two cycles of the Setup resource.
ChangeConfig ==
    /\ pc = "idle"
    /\ changes < MaxChanges
    /\ \E cfg \in ConfigSet \ {secret} :
          /\ secret' = cfg
          /\ storage' = [storage EXCEPT !.Config.Checksum = Checksum(cfg)]
    /\ changes' = changes + 1
    /\ UNCHANGED <<dbs, users, grants, driver, resource, pc, last, prev, failures>>
    /\ UNCHANGED addonvars

\* The tenant is moved to a DataStore of another driver.
ChangeDriver ==
    /\ pc = "idle"
    /\ changes < MaxChanges
    /\ \E d \in Drivers \ {driver} : driver' = d
    /\ changes' = changes + 1
    /\ UNCHANGED <<dbs, users, grants, secret, storage, resource, pc, last, prev, failures>>
    /\ UNCHANGED addonvars

\* Status.Storage.Driver is recorded (by the storage Config resource).
RecordDriver ==
    /\ pc = "idle"
    /\ storage.Driver # driver
    /\ storage' = [storage EXCEPT !.Driver = driver]
    /\ UNCHANGED <<dbs, users, grants, secret, driver, resource, pc, last, prev,
                   changes, failures>>
    /\ UNCHANGED addonvars

----------------------------------------------------------------------------
(* The reconciliation cycle of the Setup resource *)

\* Setup.Define: Client.Get of the secret fails (ok = FALSE) or fills r.resource.
HandleDefine ==
    /\ pc = "idle"
    /\ \E ok \in BOOLEAN :
          IF ok
          THEN /\ resource' = secret
               /\ pc' = "defined"
               /\ UNCHANGED failures
          ELSE /\ failures < MaxFailures
               /\ failures' = failures + 1
               /\ UNCHANGED <<resource, pc>>
    /\ UNCHANGED <<dbs, users, grants, secret, storage, driver, last, prev, changes>>
    /\ UNCHANGED addonvars

\* One call of Setup.CreateOrUpdate in which Connection operation f fails
\* (a failure of an operation the call does not reach is no failure).
Apply(f) ==
    LET c == Conn(dbs, users, grants)
        r == CreateOrUpdate(storage, c, resource, f) IN
    /\ f # "none" => (r.err # "" /\ failures < MaxFailures)
    /\ dbs' = r.c.dbs
    /\ users' = r.c.users
    /\ grants' = r.c.grants
    /\ storage' = r.st
    /\ prev' = Earlier(last)
    /\ last' = Observed("CreateOrUpdate", storage, c, resource, f, r)
    /\ pc' = IF r.err = "" THEN "applied" ELSE "idle"
    /\ failures' = IF f = "none" THEN failures ELSE failures + 1
    /\ UNCHANGED <<secret, driver, resource, changes>>
    /\ UNCHANGED addonvars

\* Step 3 of the cycle.
HandleCreateOrUpdate ==
    /\ pc = "defined"
    /\ ~SetupShouldCleanup
    /\ \E f \in Failure : Apply(f)

\* Step 4 of the cycle, reached only after a successful CreateOrUpdate.
HandleUpdateStatus ==
    /\ pc = "applied"
    /\ storage' = UpdateTenantControlPlaneStatus(storage, resource)
    /\ pc' = "idle"
    /\ UNCHANGED <<dbs, users, grants, secret, driver, resource, last, prev,
                   changes, failures>>
    /\ UNCHANGED addonvars

----------------------------------------------------------------------------
(* Direct calls *)

\* CreateOrUpdate called again right after a successful call.
CallCreateOrUpdate ==
    /\ pc = "applied"
    /\ \E f \in Failure : Apply(f)

\* Setup.Delete called on its own, after Define.
CallDelete ==
    /\ pc = "defined"
    /\ \E f \in Failure :
          LET c == Conn(dbs, users, grants)
              r == Delete(c, resource, f) IN
          /\ f # "none" => (r.err # "" /\ failures < MaxFailures)
          /\ dbs' = r.c.dbs
          /\ users' = r.c.users
          /\ grants' = r.c.grants
          /\ prev' = Earlier(last)
          /\ last' = Observed("Delete", storage, c, resource, f, r)
          /\ failures' = IF f = "none" THEN failures ELSE failures + 1
    /\ pc' = "idle"
    /\ UNCHANGED <<secret, storage, driver, resource, changes>>
    /\ UNCHANGED addonvars

----------------------------------------------------------------------------
(* The add-on resources *)

\* The tenant declares or drops an add-on.
ChangeAddonSpec ==
    /\ \E a \in Addons : addonSpec' = [addonSpec EXCEPT ![a] = ~@]
    /\ UNCHANGED <<addonStatus, addonRes, installed, addonLast>>
    /\ UNCHANGED dsvars

SetKubeadmConfigChecksum ==
    /\ \E d \in KubeadmAddons, k \in AddonChecksums :
          /\ addonRes[d] # k
          /\ addonRes' = [addonRes EXCEPT ![d] = k]
    /\ UNCHANGED <<addonSpec, addonStatus, installed, addonLast>>
    /\ UNCHANGED dsvars

\* Step 2 of the cycle: CleanUp, when ShouldCleanup is true.
AddonHandleCleanUp ==
    /\ \E d \in KubeadmAddons, clientOk \in BOOLEAN, fails \in BOOLEAN :
          /\ AddonShouldCleanup(addonSpec, d)
          /\ LET r == CleanUp(addonStatus, installed, d, clientOk, fails) IN
             /\ installed' = r.inst
             /\ addonStatus' = r.status
             /\ addonLast' = AddonObserved("CleanUp", d, r.done, r.err,
                                           addonStatus, installed, clientOk,
                                           fails, "")
    /\ UNCHANGED <<addonSpec, addonRes>>
    /\ UNCHANGED dsvars

\* Step 3 of the cycle: CreateOrUpdate, when ShouldCleanup is false.
AddonHandleCreateOrUpdate ==
    /\ \E d \in KubeadmAddons, ok \in BOOLEAN :
          /\ ~AddonShouldCleanup(addonSpec, d)
          /\ LET r == AddonCreateOrUpdate(installed, d, ok) IN
             /\ installed' = r.inst
             /\ addonLast' = AddonObserved("CreateOrUpdate", d, r.err = "", r.err,
                                           addonStatus, installed, TRUE,
                                           FALSE, "")
    /\ UNCHANGED <<addonSpec, addonStatus, addonRes>>
    /\ UNCHANGED dsvars

\* Step 4 of the cycle, after a successful CreateOrUpdate of the resource.
AddonHandleUpdateStatus ==
    /\ addonLast.op = "CreateOrUpdate"
    /\ addonLast.err = ""
    /\ LET d == addonLast.addon
           r == AddonUpdateTenantControlPlaneStatus(addonStatus, addonRes[d], d) IN
       /\ addonStatus' = r.status
       /\ addonLast' = AddonObserved("UpdateStatus", d, r.err = "", r.err,
                                     addonStatus, installed, TRUE, FALSE,
                                     addonRes[d])
    /\ UNCHANGED <<addonSpec, addonRes, installed>>
    /\ UNCHANGED dsvars

\* CleanUp called directly on a resource, whatever ShouldCleanup says.
AddonCallCleanUp ==
    /\ \E d \in KubeadmAddons, clientOk \in BOOLEAN, fails \in BOOLEAN :
          LET r == CleanUp(addonStatus, installed, d, clientOk, fails) IN
          /\ installed' = r.inst
          /\ addonStatus' = r.status
          /\ addonLast' = AddonObserved("CleanUp", d, r.done, r.err,
                                        addonStatus, installed, clientOk,
                                        fails, "")
    /\ UNCHANGED <<addonSpec, addonRes>>
    /\ UNCHANGED dsvars

\* UpdateTenantControlPlaneStatus called directly on a resource.
AddonCallUpdateStatus ==
    /\ \E d \in KubeadmAddons :
          LET r == AddonUpdateTenantControlPlaneStatus(addonStatus, addonRes[d], d) IN
          /\ addonStatus' = r.status
          /\ addonLast' = AddonObserved("UpdateStatus", d, r.err = "", r.err,
                                        addonStatus, installed, TRUE, FALSE,
                                        addonRes[d])
    /\ UNCHANGED <<addonSpec, addonRes, installed>>
    /\ UNCHANGED dsvars

----------------------------------------------------------------------------
(* Specifications *)

CycleNext ==
    \/ ChangeConfig
    \/ HandleDefine
    \/ HandleCreateOrUpdate
    \/ HandleUpdateStatus

Next ==
    \/ CycleNext
    \/ ChangeDriver
    \/ RecordDriver

Spec == Init /\ [][Next]_vars

ApiNext ==
    \/ CycleNext
    \/ CallCreateOrUpdate
    \/ CallDelete

ApiSpec == Init /\ [][ApiNext]_vars

AddonNext ==
    \/ ChangeAddonSpec
    \/ SetKubeadmConfigChecksum
    \/ AddonHandleCleanUp
    \/ AddonHandleCreateOrUpdate
    \/ AddonHandleUpdateStatus

AddonSpec == Init /\ [][AddonNext]_vars

AddonApiNext ==
    \/ AddonNext
    \/ AddonCallCleanUp
    \/ AddonCallUpdateStatus

AddonApiSpec == Init /\ [][AddonApiNext]_vars

\* The cycle is run again and again: each of its steps is taken when it is due.
LiveSpec ==
    /\ Init /\ [][CycleNext]_vars
    /\ WF_vars(HandleDefine)
    /\ WF_vars(HandleCreateOrUpdate)
    /\ WF_vars(HandleUpdateStatus)

----------------------------------------------------------------------------
(* Vocabulary of the properties *)

SchemaPresent(res) == res.schema \in dbs
UserPresent(res)   == users[res.user] # ""
GrantPresent(res)  == <<res.user, res.schema>> \in grants
AllPresent(res) == SchemaPresent(res) /\ UserPresent(res) /\ GrantPresent(res)
AllAbsent(res)  == ~SchemaPresent(res) /\ ~UserPresent(res) /\ ~GrantPresent(res)

\* The same, in the datastore as call o found it.
PreSchema(o) == o.res.schema \in o.pre.dbs
PreUser(o)   == o.pre.users[o.res.user] # ""
PreGrant(o)  == <<o.res.user, o.res.schema>> \in o.pre.grants

OpNames(ops) == [i \in 1..Len(ops) |-> ops[i].op]
Creates  == {"CreateDB", "CreateUser", "GrantPrivileges"}
Removals == {"RevokePrivileges", "DeleteDB", "DeleteUser"}

IsApply(o)    == o.kind = "CreateOrUpdate"
IsTeardown(o) == IsApply(o) /\ o.branch = "teardown"
IsProvision(o) == IsApply(o) /\ o.branch = "provision"

\* The mutating operations a failure-free teardown owes to what it found.
ExpectedTeardown(o) ==
    (IF PreGrant(o)
     THEN <<[op |-> "RevokePrivileges", user |-> o.res.user,
             schema |-> o.res.schema, ok |-> TRUE]>> ELSE <<>>)
    \o (IF PreSchema(o)
        THEN <<[op |-> "DeleteDB", user |-> "", schema |-> o.res.schema,
                ok |-> TRUE]>> ELSE <<>>)
    \o (IF PreUser(o)
        THEN <<[op |-> "DeleteUser", user |-> o.res.user, schema |-> "",
                ok |-> TRUE]>> ELSE <<>>)

\* The mutating operations a failure-free provisioning owes to what it found.
ExpectedProvision(o) ==
    (IF ~PreSchema(o)
     THEN <<[op |-> "CreateDB", user |-> "", schema |-> o.res.schema,
             ok |-> TRUE]>> ELSE <<>>)
    \o (IF ~PreUser(o)
        THEN <<[op |-> "CreateUser", user |-> o.res.user, schema |-> "",
                ok |-> TRUE]>> ELSE <<>>)
    \o (IF ~PreGrant(o)
        THEN <<[op |-> "GrantPrivileges", user |-> o.res.user,
                schema |-> o.res.schema, ok |-> TRUE]>> ELSE <<>>)

\* The desired artifacts exist and are recorded as provisioned.
Converged ==
    /\ AllPresent(secret)
    /\ storage.Setup.Checksum = storage.Config.Checksum

----------------------------------------------------------------------------
(* Properties of the datastore Setup resource *)

\* C1: in a cycle that starts with a recorded Setup.Checksum A and a desired
\* Config.Checksum B # A, a successful CreateOrUpdate has removed the grant,
\* the schema and the user recorded in Status.Storage.Setup, no creation
\* comes before a removal, and after the status update Setup.Checksum is B.
C1_DriftRepair ==
    /\ (pc = "applied" /\ IsTeardown(last) /\ last.err = "")
          => /\ storage.Setup.Schema \notin dbs
             /\ users[storage.Setup.User] = ""
             /\ <<storage.Setup.User, storage.Setup.Schema>> \notin grants
             /\ \A i, j \in 1..Len(last.ops) :
                   (last.ops[i].op \in Creates /\ last.ops[j].op \in Removals)
                      => j < i
    /\ (pc = "idle" /\ IsTeardown(last) /\ last.err = ""
          /\ storage.Config.Checksum = last.st.desired)
          => storage.Setup.Checksum = last.st.desired

\* C2: between two cycles, a recorded fingerprint equal to the desired one
\* together with a recorded driver equal to the desired driver means that
\* the schema, the user and the grant of the desired configuration exist.
C2_StorageStatusInvariant ==
    (/\ pc = "idle"
     /\ storage.Setup.Checksum = storage.Config.Checksum
     /\ storage.Driver = driver)
        => AllPresent(secret)

\* C3: with schema, user and grant present, cfgHash1 recorded and cfgHash2
\* desired under the same names, one successful CreateOrUpdate revokes,
\* deletes schema and user and recreates all three, which exist when it
\* returns; the status update that follows records cfgHash2.
C3_TeardownThenRecreate ==
    /\ (/\ pc = "applied" /\ IsApply(last) /\ last.fail = "none"
        /\ last.st.recorded = "cfgHash1" /\ last.st.desired = "cfgHash2"
        /\ PreSchema(last) /\ PreUser(last) /\ PreGrant(last))
          => /\ last.err = ""
             /\ OpNames(last.ops) = <<"RevokePrivileges", "DeleteDB", "DeleteUser",
                                      "CreateDB", "CreateUser", "GrantPrivileges">>
             /\ AllPresent(last.res)
    /\ (/\ pc = "idle" /\ IsApply(last) /\ last.err = ""
        /\ last.st.recorded = "cfgHash1" /\ last.st.desired = "cfgHash2"
        /\ storage.Config.Checksum = "cfgHash2")
          => storage.Setup.Checksum = "cfgHash2"

\* C4: of two CreateOrUpdate calls in succession with the same fingerprints
\* and credentials and without failure, the second invokes no mutating
\* operation and returns the no-op result without error.
C4_Idempotence ==
    (/\ pc = "applied"
     /\ IsApply(prev) /\ prev.fail = "none" /\ prev.err = ""
     /\ IsApply(last) /\ last.fail = "none"
     /\ last.st = prev.st /\ last.res = prev.res)
        => /\ last.ops = <<>>
           /\ last.result = OperationResultNone
           /\ last.err = ""

\* C5: with the cycle run again and again, a configuration that stops
\* changing and operations that end up succeeding, the desired schema, user
\* and grant exist and Setup.Checksum = Config.Checksum from some point on.
C5_Convergence == <>[]Converged

\* C5 witness: convergence reached through a teardown cycle and a
\* provisioning cycle after it.
C5_Witness ==
    /\ pc = "idle" /\ Converged
    /\ IsTeardown(prev) /\ prev.err = ""
    /\ IsProvision(last) /\ last.err = "" /\ Len(last.ops) = 3

\* C6: a Delete without failure returns success, invokes revoke / delete for
\* exactly the artifacts it finds and leaves grant, schema and user absent;
\* finding none, it invokes nothing.
C6_TeardownIdempotence ==
    (last.kind = "Delete" /\ last.fail = "none")
        => /\ last.err = ""
           /\ last.ops = ExpectedTeardown(last)
           /\ AllAbsent(last.res)

\* C6 witness: a Delete that completes what a failed Delete left.
C6_Witness ==
    /\ last.kind = "Delete" /\ last.fail = "none"
    /\ prev.kind = "Delete" /\ prev.err # "" /\ prev.res = last.res
    /\ Len(prev.ops) >= 2
    /\ Len(last.ops) = 1
    /\ AllAbsent(last.res)

\* The step of the provisioning branch an error comes from.
FailedStep(o) ==
    CASE o.err \in {"unable to check if datastore exists",
                    "unable to create the datastore"} -> "schema"
      [] o.err \in {"unable to check if user exists",
                    "unable to create the user"} -> "user"
      [] o.err \in {"unable to check if privileges exist",
                    "unable to grant privileges"} -> "grant"
      [] OTHER -> ""

\* C7: a provisioning call whose step fails returns the error, attempts no
\* later step and keeps what its earlier steps created; the failure-free
\* call after it, with the same inputs, creates exactly what is missing and
\* leaves all three present.
C7_PartialFailureResumption ==
    /\ (IsProvision(last) /\ last.fail # "none")
          => /\ last.err # "" /\ FailedStep(last) # ""
             /\ FailedStep(last) = "schema"
                   => \A i \in 1..Len(last.ops) : last.ops[i].op = "CreateDB"
             /\ FailedStep(last) = "user"
                   => \A i \in 1..Len(last.ops) : last.ops[i].op # "GrantPrivileges"
             /\ \A i \in 1..Len(last.ops) :
                   last.ops[i].ok =>
                      CASE last.ops[i].op = "CreateDB" -> SchemaPresent(last.res)
                        [] last.ops[i].op = "CreateUser" -> UserPresent(last.res)
                        [] OTHER -> GrantPresent(last.res)
             /\ last.pre.dbs \subseteq dbs
             /\ last.pre.grants \subseteq grants
             /\ \A u \in Users : last.pre.users[u] # "" => users[u] = last.pre.users[u]
    /\ (/\ IsProvision(last) /\ last.fail = "none"
        /\ IsProvision(prev) /\ prev.fail # "none"
        /\ last.st = prev.st /\ last.res = prev.res)
          => /\ last.err = ""
             /\ last.ops = ExpectedProvision(last)
             /\ AllPresent(last.res)

\* C7 witness: the user step failed after the schema was created, and the
\* next call created the user and the grant only.
C7_Witness ==
    /\ IsProvision(last) /\ last.fail = "none"
    /\ IsProvision(prev) /\ prev.fail = "CreateUser"
    /\ last.st = prev.st /\ last.res = prev.res
    /\ OpNames(prev.ops) = <<"CreateDB", "CreateUser">>
    /\ OpNames(last.ops) = <<"CreateUser", "GrantPrivileges">>
    /\ AllPresent(last.res)

\* C8: Status.Storage.Setup changes only in the step from a successful
\* CreateOrUpdate to the end of the cycle, that is in
\* UpdateTenantControlPlaneStatus: CreateOrUpdate and Delete leave it as it
\* is on every path, and a cycle whose CreateOrUpdate fails ends with the
\* fingerprint it started with.
C8_StatusMonotonicity ==
    [][storage'.Setup # storage.Setup
          => (pc = "applied" /\ pc' = "idle" /\ failures' = failures)]_vars

\* C8 witness: a teardown failed half-way under a recorded fingerprint, which
\* is still the recorded one.
C8_Witness ==
    /\ pc = "idle"
    /\ IsTeardown(last) /\ last.err # "" /\ last.ops # <<>>
    /\ storage.Setup.Checksum = last.st.recorded
    /\ storage.Setup.Checksum # storage.Config.Checksum

----------------------------------------------------------------------------
(* Properties of the resource contract *)

C10_ShouldStatusBeUpdated ==
    /\ \A d \in KnownAddons :
          AddonShouldStatusBeUpdated(addonStatus, addonRes[d], d)
             <=> addonStatus[AddonField(d)] # addonRes[d]
    /\ SetupShouldStatusBeUpdated(storage, driver)
          <=> storage.Setup.Checksum # storage.Config.Checksum

\* C11: for CoreDNS and kube-proxy CleanUp returns (true, nil) exactly when
\* the remover succeeds, (false, nil) exactly when the remover reports
\* not-found, and (false, err) exactly when the remover fails otherwise or
\* the tenant client cannot be built; the AddonStatus of the tenant is what
\* it was before the call.
C11_CleanUpOutcomes ==
    (addonLast.op = "CleanUp" /\ addonLast.addon \in KnownAddons) =>
       LET a        == AddonField(addonLast.addon)
           removed  == addonLast.clientOk /\ ~addonLast.fails /\ addonLast.inst[a]
           notFound == addonLast.clientOk /\ ~addonLast.fails /\ ~addonLast.inst[a]
           failed   == ~addonLast.clientOk \/ addonLast.fails
       IN  /\ (addonLast.done /\ addonLast.err = "") <=> removed
           /\ (~addonLast.done /\ addonLast.err = "") <=> notFound
           /\ (~addonLast.done /\ addonLast.err # "") <=> failed
           /\ removed => ~installed[a]
           /\ ~removed => installed = addonLast.inst
           /\ addonStatus = addonLast.status

\* C11 witness: CleanUp removed an installed add-on whose checksum is
\* recorded, and the checksum is still recorded.
C11_Witness ==
    /\ addonLast.op = "CleanUp" /\ addonLast.addon = AddonCoreDNS
    /\ addonLast.done /\ addonLast.err = ""
    /\ addonLast.inst["CoreDNS"] /\ ~installed["CoreDNS"]
    /\ addonLast.recorded # "" /\ addonStatus["CoreDNS"] = addonLast.recorded

\* C12: CreateOrUpdate takes the teardown branch if and only if the recorded
\* Setup.Checksum is non-empty and differs from Config.Checksum: then the
\* call invokes no create or grant and, when it succeeds, has removed what
\* it found and returns Updated; with an empty or an equal recorded
\* fingerprint the call invokes no delete or revoke and, when no step
\* fails, creates what it found missing.
C12_BranchSelection ==
    IsApply(last) =>
       IF last.st.recorded # "" /\ last.st.recorded # last.st.desired
       THEN /\ \A i \in 1..Len(last.ops) : last.ops[i].op \in Removals
            /\ last.err = "" => /\ last.result = OperationResultUpdated
                                /\ last.ops = ExpectedTeardown(last)
       ELSE /\ \A i \in 1..Len(last.ops) : last.ops[i].op \in Creates
            /\ last.err = "" => /\ last.result # OperationResultUpdated
                                /\ last.ops = ExpectedProvision(last)

\* C12 witness: with a recorded fingerprint that differs from the desired
\* one and everything in place, the call removed all three and returned
\* Updated.
C12_Witness ==
    /\ IsApply(last) /\ last.err = ""
    /\ last.st.recorded = "cfgHash1" /\ last.st.desired = "cfgHash2"
    /\ PreSchema(last) /\ PreUser(last) /\ PreGrant(last)
    /\ OpNames(last.ops) = <<"RevokePrivileges", "DeleteDB", "DeleteUser">>
    /\ last.result = OperationResultUpdated

\* The datastore at the moment call o invokes its i-th mutating operation:
\* what the call found, with what its earlier operations created or removed.
DbsAt(o, i) ==
    (o.pre.dbs \cup {o.ops[j].schema : j \in {k \in 1..(i-1) :
                          o.ops[k].ok /\ o.ops[k].op = "CreateDB"}})
       \ {o.ops[j].schema : j \in {k \in 1..(i-1) :
                          o.ops[k].ok /\ o.ops[k].op = "DeleteDB"}}
UsersAt(o, i) ==
    ({u \in Users : o.pre.users[u] # ""}
        \cup {o.ops[j].user : j \in {k \in 1..(i-1) :
                          o.ops[k].ok /\ o.ops[k].op = "CreateUser"}})
       \ {o.ops[j].user : j \in {k \in 1..(i-1) :
                          o.ops[k].ok /\ o.ops[k].op = "DeleteUser"}}
GrantsAt(o, i) ==
    (o.pre.grants
        \cup {<<o.ops[j].user, o.ops[j].schema>> : j \in {k \in 1..(i-1) :
                          o.ops[k].ok /\ o.ops[k].op = "GrantPrivileges"}})
       \ {<<o.ops[j].user, o.ops[j].schema>> : j \in {k \in 1..(i-1) :
                          o.ops[k].ok /\ o.ops[k].op = "RevokePrivileges"}}

\* The artifact the i-th operation of call o is about exists at that moment.
ExistsAt(o, i) ==
    LET e == o.ops[i] IN
    CASE e.op \in {"CreateDB", "DeleteDB"}     -> e.schema \in DbsAt(o, i)
      [] e.op \in {"CreateUser", "DeleteUser"} -> e.user \in UsersAt(o, i)
      [] OTHER -> <<e.user, e.schema>> \in GrantsAt(o, i)

ProvisionOrder == <<"CreateDB", "CreateUser", "GrantPrivileges">>
StepOf(order, op) == CHOOSE n \in 1..Len(order) : order[n] = op

\* C13: in every CreateOrUpdate and Delete call, with nothing else acting on
\* the datastore, a create or grant is invoked only for an artifact that
\* does not exist at that moment and a delete or revoke only for one that
\* exists, always for the names read by Define; the provisioning branch
\* handles the schema, then the user, then the grant.
C13_CheckThenAct ==
    /\ \A i \in 1..Len(last.ops) :
          /\ last.ops[i].op \in Creates => ~ExistsAt(last, i)
          /\ last.ops[i].op \in Removals => ExistsAt(last, i)
          /\ last.ops[i].user \in {"", last.res.user}
          /\ last.ops[i].schema \in {"", last.res.schema}
    /\ IsProvision(last) =>
          \A i, j \in 1..Len(last.ops) :
             i < j => StepOf(ProvisionOrder, last.ops[i].op)
                         < StepOf(ProvisionOrder, last.ops[j].op)

\* C13 witness: a provisioning call found the schema in place and the user
\* and the grant missing, and created the user, then the grant, and nothing
\* else.
C13_Witness ==
    /\ IsProvision(last) /\ last.fail = "none" /\ last.err = ""
    /\ PreSchema(last) /\ ~PreUser(last) /\ ~PreGrant(last)
    /\ OpNames(last.ops) = <<"CreateUser", "GrantPrivileges">>
    /\ AllPresent(last.res)

TeardownOrder == <<"RevokePrivileges", "DeleteDB", "DeleteUser">>
RevokeStepErrors ==
    {"unable to check if privileges exist", "unable to revoke privileges"}
SchemaStepErrors ==
    {"unable to check if datastore exists", "unable to delete the datastore"}

\* C14: Delete, called directly or as the teardown branch, revokes before it
\* deletes the schema and deletes the schema before the user; when the
\* revoke step fails neither the schema nor the user is deleted, when the
\* schema step fails the user is not deleted, and the error of the failed
\* step is returned.
C14_TeardownOrder ==
    (last.kind = "Delete" \/ IsTeardown(last)) =>
       /\ \A i, j \in 1..Len(last.ops) :
             i < j => StepOf(TeardownOrder, last.ops[i].op)
                         < StepOf(TeardownOrder, last.ops[j].op)
       /\ last.fail # "none" => last.err # ""
       /\ last.err \in RevokeStepErrors =>
             /\ \A i \in 1..Len(last.ops) :
                    last.ops[i].op \notin {"DeleteDB", "DeleteUser"}
             /\ dbs = last.pre.dbs /\ users = last.pre.users
       /\ last.err \in SchemaStepErrors =>
             /\ \A i \in 1..Len(last.ops) : last.ops[i].op # "DeleteUser"
             /\ users = last.pre.users

\* C14 witness: a Delete revoked the grant, failed to delete the schema and
\* left the user in place.
C14_Witness ==
    /\ last.kind = "Delete" /\ last.err = "unable to delete the datastore"
    /\ PreGrant(last) /\ PreSchema(last) /\ PreUser(last)
    /\ OpNames(last.ops) = <<"RevokePrivileges", "DeleteDB">>
    /\ ~GrantPresent(last.res) /\ SchemaPresent(last.res)
    /\ UserPresent(last.res)

\* C15: a provisioning CreateOrUpdate that succeeds returns Created if and
\* only if at least one of schema, user and grant was absent and this call
\* created it, and returns the no-op result if and only if all three were
\* already there: the strongest outcome of its steps, Created before
\* Updated before no-op.
C15_AggregateResult ==
    (IsProvision(last) /\ last.err = "") =>
       LET created == {i \in 1..Len(last.ops) :
                          last.ops[i].ok /\ last.ops[i].op \in Creates}
           absent  == ~PreSchema(last) \/ ~PreUser(last) \/ ~PreGrant(last)
       IN  /\ last.result = OperationResultCreated <=> (absent /\ created # {})
           /\ last.result = OperationResultNone
                 <=> (PreSchema(last) /\ PreUser(last) /\ PreGrant(last))
           /\ last.result = OperationResultNone => last.ops = <<>>
           /\ last.result \in {OperationResultCreated, OperationResultNone}

\* C15 witness: only the user was missing; the call created it, found the
\* grant in place in its last step, and returned Created.
C15_Witness ==
    /\ IsProvision(last) /\ last.err = ""
    /\ PreSchema(last) /\ ~PreUser(last) /\ PreGrant(last)
    /\ OpNames(last.ops) = <<"CreateUser">>
    /\ last.result = OperationResultCreated

\* C16: Setup.ShouldStatusBeUpdated is true exactly when the recorded driver
\* differs from the desired driver and Setup.Checksum differs from
\* Config.Checksum; CreateOrUpdate selects its branch without it: with the
\* desired driver recorded and a non-empty recorded fingerprint that differs
\* from the desired one ShouldStatusBeUpdated is false and CreateOrUpdate
\* has performed the teardown.
C16_IndependentGates ==
    /\ SetupShouldStatusBeUpdated(storage, driver)
          <=> (/\ storage.Driver # driver
               /\ storage.Setup.Checksum # storage.Config.Checksum)
    /\ (/\ pc = "applied"
        /\ storage.Driver = driver
        /\ storage.Setup.Checksum # ""
        /\ storage.Setup.Checksum # storage.Config.Checksum)
          => /\ ~SetupShouldStatusBeUpdated(storage, driver)
             /\ last.st.recorded = storage.Setup.Checksum
             /\ last.st.desired = storage.Config.Checksum
             /\ last.ops = ExpectedTeardown(last)
             /\ last.result = OperationResultUpdated

\* C16 witness: the desired driver is recorded, the fingerprint has changed,
\* ShouldStatusBeUpdated is false and CreateOrUpdate has just removed the
\* grant, the schema and the user.
C16_Witness ==
    /\ pc = "applied" /\ storage.Driver = driver
    /\ storage.Setup.Checksum # ""
    /\ storage.Setup.Checksum # storage.Config.Checksum
    /\ ~SetupShouldStatusBeUpdated(storage, driver)
    /\ IsApply(last) /\ Len(last.ops) = Cardinality(Removals)
    /\ \A i \in 1..Len(last.ops) : last.ops[i].op \in Removals
    /\ AllAbsent(last.res)

\* C17: for CoreDNS and kube-proxy UpdateTenantControlPlaneStatus succeeds,
\* sets the AddonStatus.Checksum of that add-on to the checksum last given
\* to SetKubeadmConfigChecksum and leaves the checksum of the other add-on
\* as it was; ShouldStatusBeUpdated is then false, and it is true again
\* exactly when a different checksum has been given since.
C17_StatusRoundTrip ==
    (addonLast.op = "UpdateStatus" /\ addonLast.addon \in KnownAddons) =>
       LET d == addonLast.addon
           a == AddonField(d)
       IN  /\ addonLast.err = ""
           /\ addonStatus[a] = addonLast.applied
           /\ \A b \in Addons \ {a} : addonStatus[b] = addonLast.status[b]
           /\ ~AddonShouldStatusBeUpdated(addonStatus, addonLast.applied, d)
           /\ AddonShouldStatusBeUpdated(addonStatus, addonRes[d], d)
                 <=> addonRes[d] # addonLast.applied

\* C17 witness: the status of CoreDNS took kubeadmHash1 while kube-proxy kept
\* the checksum it had recorded, and kubeadmHash2 has been given since.
C17_Witness ==
    /\ addonLast.op = "UpdateStatus" /\ addonLast.addon = AddonCoreDNS
    /\ addonLast.applied = "kubeadmHash1"
    /\ addonLast.status["CoreDNS"] # "kubeadmHash1"
    /\ addonStatus["CoreDNS"] = "kubeadmHash1"
    /\ addonStatus["KubeProxy"] = "kubeadmHash2"
    /\ addonRes[AddonCoreDNS] = "kubeadmHash2"
    /\ AddonShouldStatusBeUpdated(addonStatus, addonRes[AddonCoreDNS], AddonCoreDNS)

\* C18: for a KubeadmAddon that is neither AddonCoreDNS nor AddonKubeProxy,
\* CleanUp, UpdateTenantControlPlaneStatus, GetKubeadmFunction and GetStatus
\* each end by returning an unsupported-add-on error, none of them crashes,
\* and the status of the tenant is left as it was.
C18_UnknownAddon ==
    /\ \A d \in KubeadmAddons \ KnownAddons :
          GetKubeadmFunction(d).err # "" /\ GetStatus(d).err # ""
    /\ (/\ addonLast.op \in {"CleanUp", "UpdateStatus"}
        /\ addonLast.addon \notin KnownAddons)
          => /\ addonLast.err \notin {"", "panic"}
             /\ ~addonLast.done
             /\ addonStatus = addonLast.status

\* C19: in every state reached from an empty datastore by Define,
\* CreateOrUpdate and Delete calls, with failures at any step and with
\* schema and user names that change between cycles, a grant for (user,
\* schema) exists only if that user and that schema both exist.
C19_NoDanglingGrant ==
    \A g \in grants : users[g[1]] # "" /\ g[2] \in dbs

\* C20: a provisioning CreateOrUpdate (recorded fingerprint empty or equal
\* to the desired one) that finds the user in place leaves its password as
\* it is, whatever password Define has read, invokes nothing for the user
\* and reports no change for it; the password of a user changes only by a
\* teardown that deletes the user and a later provisioning call that
\* creates it with the password of that cycle.
C20_NoInPlaceUpdate ==
    [][/\ \A u \in Users :
             /\ (users[u] # "" /\ users'[u] # "") => users'[u] = users[u]
             /\ (users[u] # "" /\ users'[u] = "")
                   => (pc = "defined" /\ IsTeardown(last'))
             /\ (users[u] = "" /\ users'[u] # "")
                   => /\ pc = "defined" /\ IsProvision(last')
                      /\ u = resource.user /\ users'[u] = resource.password
       /\ (/\ pc = "defined" /\ pc' # "defined"
           /\ storage.Setup.Checksum \in {"", storage.Config.Checksum}
           /\ users[resource.user] # "")
             => /\ users' = users
                /\ \A i \in 1..Len(last'.ops) :
                      last'.ops[i].op \notin {"CreateUser", "DeleteUser"}
                /\ (last'.err = "" /\ PreSchema(last') /\ PreGrant(last'))
                      => last'.result = OperationResultNone
      ]_vars

\* C20 witness: a provisioning call read a password that differs from the
\* one of the user in place, succeeded, and the user has the old password.
C20_Witness ==
    /\ IsProvision(last) /\ last.err = "" /\ PreUser(last)
    /\ last.res.password # last.pre.users[last.res.user]
    /\ users[last.res.user] = last.pre.users[last.res.user]
    /\ GrantPresent(last.res)

====
